---- MODULE Spec2Model ----
(***************************************************************************)
(* RelationExtractor (flair/models/relation_extractor_model.py).           *)
(*                                                                         *)
(* The model covers the construction of the classifier, the entity marker  *)
(* rewriting, forward_pass (candidate generation, chunking, the embedding  *)
(* loop, stacking and decoding) and the state-dict round trip.             *)
(*                                                                         *)
(* A tensor is represented by what the properties need of it: the objects  *)
(* it was computed from ("of") and its length ("len").                     *)
(***************************************************************************)
EXTENDS Integers, Sequences, FiniteSets, TLC

\* ---------------------------------------------------------------- bounds
\* sentences in one forward_pass batch
MaxSentences == 2
\* span annotations of one sentence
MaxSpans == 3
\* tokens of a sentence handed to add_entity_markers
MaxTokens == 4
\* embedding_length of the provider
EmbLen == 2

Words == {"A", "B"}
Types == {"PER", "ORG"}

Min(a, b) == IF a < b THEN a ELSE b

\* ------------------------------------------------------------ data model
\* A Span is a contiguous run of tokens of one sentence: tokens start..end.
\* span[0] is token `start`, span[-1] is token `end`.
Span(s, e) == [start |-> s, end |-> e]

SpansOf(n) == {Span(s, e) : s \in 1..n, e \in 1..n} \cap
              {sp \in [start : 1..n, end : 1..n] : sp.start <= sp.end}

\* Span.id_text: the identity text of a span, its token positions.
id_text(span) == [k \in 1..(span.end - span.start + 1) |-> span.start + k - 1]

\* f"{head.id_text} -> {tail.id_text}"; the arrow is the element 0, which is
\* no token position.
create_position_string(head, tail) == id_text(head) \o <<0>> \o id_text(tail)

\* ------------------------------------------------- add_entity_markers
\* The text under construction is a sequence of pieces; " <e1>" is the two
\* pieces " " and "<e1>".  Sentence(text, use_tokenizer=False) splits the
\* text at the blanks.
IsWord(p) == p # " "
SpaceTokenize(text) == SelectSeq(text, IsWord)

ScanStart == [text |-> <<>>, offset |-> 0, entity_one_is_first |-> "None",
              span_1_startid |-> 0, span_1_stopid |-> 0,
              span_2_startid |-> 0, span_2_stopid |-> 0]

\* Lines 84-88: the token opens span_2.
ScanOpen2(a, i, span_2) ==
    IF i = span_2.start
    THEN [a EXCEPT !.entity_one_is_first =
                       IF @ = "None" THEN "False" ELSE @,
                   !.offset = @ + 1,
                   !.text = @ \o <<" ", "<e2>">>,
                   !.span_2_startid = a.offset + 1]
    ELSE a

\* Lines 89-93: the token opens span_1.
ScanOpen1(a, i, span_1) ==
    IF i = span_1.start
    THEN [a EXCEPT !.offset = @ + 1,
                   !.text = @ \o <<" ", "<e1>">>,
                   !.entity_one_is_first =
                       IF @ = "None" THEN "True" ELSE @,
                   !.span_1_startid = a.offset + 1]
    ELSE a

\* Line 95.
ScanText(a, word) == [a EXCEPT !.text = @ \o <<" ", word>>]

\* Lines 97-100: the token closes span_1.
ScanClose1(a, i, span_1) ==
    IF i = span_1.end
    THEN [a EXCEPT !.offset = @ + 1,
                   !.text = @ \o <<" ", "</e1>">>,
                   !.span_1_stopid = a.offset + 1]
    ELSE a

\* Lines 101-104: the token closes span_2.
ScanClose2(a, i, span_2) ==
    IF i = span_2.end
    THEN [a EXCEPT !.offset = @ + 1,
                   !.text = @ \o <<" ", "</e2>">>,
                   !.span_2_stopid = a.offset + 1]
    ELSE a

\* Line 106.
ScanNext(a) == [a EXCEPT !.offset = @ + 1]

\* One iteration of the loop over the tokens (lines 83-106).
ScanToken(a, i, word, span_1, span_2) ==
    ScanNext(
      ScanClose2(
        ScanClose1(
          ScanText(
            ScanOpen1(ScanOpen2(a, i, span_2), i, span_1),
            word),
          i, span_1),
        i, span_2))

RECURSIVE Scan(_, _, _, _)
\* The state of the scan after the first i tokens.
Scan(tokens, i, span_1, span_2) ==
    IF i = 0 THEN ScanStart
    ELSE ScanToken(Scan(tokens, i - 1, span_1, span_2), i, tokens[i],
                   span_1, span_2)

\* Mutant: the rewritten spans are returned in argument order whatever the
\* reading order.
MarkerPairArgumentOrder(entity_one_is_first, expanded_span_1, expanded_span_2) ==
    <<expanded_span_1, expanded_span_2>>

\* The order in which the two rewritten spans are returned (lines 116-117).
MarkerPair(entity_one_is_first, expanded_span_1, expanded_span_2) ==
    IF entity_one_is_first = "True"
    THEN <<expanded_span_1, expanded_span_2>>
    ELSE <<expanded_span_2, expanded_span_1>>

\* add_entity_markers(sentence, span_1, span_2), lines 77-117.  The result
\* is ok = FALSE when the call raises: a start id that was never assigned,
\* an index outside the rewritten sentence, or a token that is not the
\* expected marker (the undefined name on lines 113-114).
add_entity_markers(tokens, span_1, span_2) ==
    LET a == Scan(tokens, Len(tokens), span_1, span_2)
        expanded_sentence == SpaceTokenize(a.text)
        n == Len(expanded_sentence)
        bound == /\ a.span_1_startid \in 1..n
                 /\ a.span_2_startid \in 1..n
    IN  IF ~bound THEN [ok |-> FALSE, tokens |-> <<>>, spans |-> <<>>]
        ELSE IF \/ expanded_sentence[a.span_1_startid] # "<e1>"
                \/ expanded_sentence[a.span_2_startid] # "<e2>"
        THEN [ok |-> FALSE, tokens |-> <<>>, spans |-> <<>>]
        ELSE [ok |-> TRUE,
              tokens |-> expanded_sentence,
              spans |-> MarkerPair(a.entity_one_is_first,
                                   Span(a.span_1_startid, a.span_1_startid),
                                   Span(a.span_2_startid, a.span_2_startid))]

\* ------------------------------------------------------------- sentences
\* A sentence: its token texts and, per label type name, its annotations in
\* the order they were added.  A span annotation is [span, value]; a
\* relation annotation is [head, tail, value].
get_labels(sentence, typename) ==
    IF typename \in DOMAIN sentence.labels THEN sentence.labels[typename]
    ELSE <<>>

SentenceId(si) == [kind |-> "sentence", no |-> si]
ExpandedId(c) == [kind |-> "expanded", no |-> c]

\* A span of a particular sentence object.
SpanRef(id, span) == [sent |-> id, start |-> span.start, end |-> span.end]

\* ---------------------------------------------------------- construction
NoPairs == [none |-> TRUE, pairs |-> {}]
PairSet(ps) == [none |-> FALSE, pairs |-> ps]

\* Mutant: every provider that is not a TokenEmbeddings is sized as a
\* document-level one.
RepresentationLengthByTokenType(emb, pooling_operation) ==
    IF emb.type # "TokenEmbeddings"
    THEN emb.embedding_length
    ELSE IF pooling_operation = "first_last"
         THEN 2 * (2 * emb.embedding_length)
         ELSE 2 * emb.embedding_length

\* Lines 55-59: the input width of the decoder.
RepresentationLength(emb, pooling_operation) ==
    IF emb.type = "TransformerDocumentEmbeddings"
    THEN emb.embedding_length
    ELSE IF pooling_operation = "first_last"
         THEN 2 * (2 * emb.embedding_length)
         ELSE 2 * emb.embedding_length

\* RelationExtractor.__init__, lines 16-75.  The embedding provider is the
\* object `embeddings`; the record holds the model's own fields.
RelationExtractorInit(emb, label_dictionary, label_type, span_label_type, use_entity_markers, use_gold_spans, use_entity_pairs, pooling_operation) ==
    [label_type |-> label_type,
     span_label_type |-> span_label_type,
     use_gold_spans |-> use_gold_spans,
     pooling_operation |-> pooling_operation,
     use_entity_markers |-> use_entity_markers,
     use_entity_pairs |-> use_entity_pairs,
     relation_representation_length |->
         RepresentationLength(emb, pooling_operation),
     label_dictionary |-> label_dictionary \cup {"O"},
     training |-> TRUE]

\* _get_state_dict, lines 258-272.
GetStateDict(m) ==
    [label_dictionary |-> m.label_dictionary,
     label_type |-> m.label_type,
     span_label_type |-> m.span_label_type,
     pooling_operation |-> m.pooling_operation,
     use_entity_pairs |-> m.use_entity_pairs,
     use_entity_markers |-> m.use_entity_markers]

\* _init_model_with_state_dict, lines 274-289: use_gold_spans is not among
\* the arguments and takes its default, False (line 22).
InitModelWithStateDict(emb, state) ==
    RelationExtractorInit(emb, state.label_dictionary, state.label_type,
                          state.span_label_type, state.use_entity_markers,
                          FALSE, state.use_entity_pairs,
                          state.pooling_operation)

\* ---------------------------------------------------- candidate generation
RECURSIVE RelationDict(_, _)
\* Lines 134-137: the dictionary after the first i relation annotations; a
\* later annotation of the same key replaces the earlier one.
RelationDict(rels, i) ==
    IF i = 0 THEN [k \in {} |-> 0]
    ELSE LET d == RelationDict(rels, i - 1)
             key == create_position_string(rels[i].head, rels[i].tail)
         IN  [k \in DOMAIN d \cup {key} |-> IF k = key THEN rels[i] ELSE d[k]]

relation_dict(m, sentence) ==
    LET rels == get_labels(sentence, m.label_type)
    IN  RelationDict(rels, Len(rels))

\* Lines 143-147: the nested loops over the span annotations, as the
\* sequence of index pairs in iteration order.
CrossProduct(n) ==
    [k \in 1..(n * n) |-> <<((k - 1) \div n) + 1, ((k - 1) % n) + 1>>]

\* Mutant: two spans are the same when they begin at the same token.
SameSpanByStart(span_1, span_2) == span_1.start = span_2.start

\* Line 149.
SameSpan(span_1, span_2) == span_1 = span_2

\* Lines 152-154.
PairNotAllowed(m, value_1, value_2) ==
    /\ ~m.use_entity_pairs.none
    /\ <<value_1, value_2>> \notin m.use_entity_pairs.pairs

\* Mutant: the gold relation is looked up from tail to head.
PairLabelReversed(m, dict, span_1, span_2) ==
    LET position_string == create_position_string(span_2, span_1)
    IN  IF position_string \in DOMAIN dict THEN dict[position_string].value
        ELSE IF m.use_gold_spans THEN "skip"
        ELSE "O"

\* Lines 156-167: the label of a pair, or "skip" when the pair is dropped.
PairLabel(m, dict, span_1, span_2) ==
    LET position_string == create_position_string(span_1, span_2)
    IN  IF position_string \in DOMAIN dict THEN dict[position_string].value
        ELSE IF m.use_gold_spans THEN "skip"
        ELSE "O"

\* One pass of the inner loop body, lines 144-167: the candidate of the
\* index pair p, with label "skip" when a `continue` is taken.
PairCandidate(m, sentence, si, p) ==
    LET span_labels == get_labels(sentence, m.span_label_type)
        span_label == span_labels[p[1]]
        span_label_2 == span_labels[p[2]]
        label == IF SameSpan(span_label.span, span_label_2.span) THEN "skip"
                 ELSE IF PairNotAllowed(m, span_label.value, span_label_2.value)
                 THEN "skip"
                 ELSE PairLabel(m, relation_dict(m, sentence),
                                span_label.span, span_label_2.span)
    IN  [sent |-> si, a |-> p[1], b |-> p[2],
         span_1 |-> span_label.span, span_2 |-> span_label_2.span,
         label |-> label]

IsEmitted(cand) == cand.label # "skip"

\* The candidates of one sentence, in nested iteration order.
SentenceCandidates(m, sentence, si) ==
    LET n == Len(get_labels(sentence, m.span_label_type))
        all == [k \in 1..(n * n) |->
                   PairCandidate(m, sentence, si, CrossProduct(n)[k])]
    IN  SelectSeq(all, IsEmitted)

RECURSIVE Candidates(_, _, _)
\* Line 131: the candidates of the first n sentences of the batch.
Candidates(m, batch, n) ==
    IF n = 0 THEN <<>>
    ELSE Candidates(m, batch, n - 1) \o SentenceCandidates(m, batch[n], n)

\* Lines 169-182: what one emitted candidate appends to the lists.
MarkedCandidate(batch, cand) ==
    add_entity_markers(batch[cand.sent].tokens, cand.span_1, cand.span_2)

\* Line 171 (markers) or line 129 (no markers).
SentencesToEmbed(m, batch, cands) ==
    IF m.use_entity_markers
    THEN [c \in 1..Len(cands) |->
             [id |-> ExpandedId(c),
              tokens |-> MarkedCandidate(batch, cands[c]).tokens]]
    ELSE [si \in 1..Len(batch) |->
             [id |-> SentenceId(si), tokens |-> batch[si].tokens]]

\* Line 172 (markers) or line 174 (no markers).
EntityPairs(m, batch, cands) ==
    IF m.use_entity_markers
    THEN [c \in 1..Len(cands) |->
             LET ex == MarkedCandidate(batch, cands[c]).spans
             IN  <<SpanRef(ExpandedId(c), ex[1]), SpanRef(ExpandedId(c), ex[2])>>]
    ELSE [c \in 1..Len(cands) |->
             <<SpanRef(SentenceId(cands[c].sent), cands[c].span_1),
               SpanRef(SentenceId(cands[c].sent), cands[c].span_2)>>]

\* Line 176.
Labels(cands) == [c \in 1..Len(cands) |-> <<cands[c].label>>]

\* Lines 179-182.
LabelCandidates(rlc, cands) ==
    IF rlc
    THEN [c \in 1..Len(cands) |->
             [head |-> SpanRef(SentenceId(cands[c].sent), cands[c].span_1),
              tail |-> SpanRef(SentenceId(cands[c].sent), cands[c].span_2),
              value |-> "None", score |-> "None"]]
    ELSE <<>>

SentencesToLabel(rlc, cands) ==
    IF rlc THEN [c \in 1..Len(cands) |-> SentenceId(cands[c].sent)]
    ELSE <<>>

\* add_entity_markers raised for some candidate (lines 110-114).
MarkersRaise(m, batch, cands) ==
    /\ m.use_entity_markers
    /\ \E c \in 1..Len(cands) : ~MarkedCandidate(batch, cands[c]).ok

\* Mutant: the loop starts detached.
DetachStartSet == TRUE

\* Line 197.
DetachStart == FALSE

\* ----------------------------------------------------------------- chunks
\* Lines 188-191: seq[x : x + size] for x in range(0, len(seq), size).
Slices(seq, size) ==
    [k \in 1..((Len(seq) + size - 1) \div size) |->
        SubSeq(seq, (k - 1) * size + 1, Min(k * size, Len(seq)))]

\* Mutant: two candidates per sentence instead of four.
MaxRelationsInBatchHalved(batch) == Len(batch) * 2

\* Line 186.
MaxRelationsInBatch(batch) == Len(batch) * 4

\* Line 187.
MustSplit(to_embed, batch) == Len(to_embed) > MaxRelationsInBatch(batch)

\* Lines 187-194.
SentenceEmbedSteps(to_embed, batch) ==
    IF MustSplit(to_embed, batch)
    THEN Slices(to_embed, MaxRelationsInBatch(batch))
    ELSE <<to_embed>>

EntityPairsSteps(to_embed, pairs, batch) ==
    IF MustSplit(to_embed, batch)
    THEN Slices(pairs, MaxRelationsInBatch(batch))
    ELSE <<pairs>>

\* Mutant: the embedding branch is taken whatever the number of labels.
HasCandidatesAlways(lbls) == TRUE

\* Line 184.
HasCandidates(lbls) == Len(lbls) > 0

\* --------------------------------------------------------------- embedding
\* The provider fills the embeddings of the tokens (a token-level provider)
\* or one embedding per sentence (a document-level provider).
EmbedsTokens(emb) == emb.type = "TokenEmbeddings"

\* token.get_embedding(): empty when the token's sentence has no token
\* embeddings.
TokenEmbedding(emb, done, id, tok) ==
    [of |-> [sent |-> id, tok |-> tok],
     len |-> IF EmbedsTokens(emb) /\ id \in done
             THEN emb.embedding_length ELSE 0]

\* torch.cat of two vectors.
Cat(v1, v2) == [of |-> <<v1.of, v2.of>>, len |-> v1.len + v2.len]

\* Lines 219-221: the vector of one entity pair.
PairEmbedding(emb, done, entity_pair) ==
    LET span_1 == entity_pair[1]
        span_2 == entity_pair[2]
    IN  Cat(TokenEmbedding(emb, done, span_1.sent, span_1.start),
            TokenEmbedding(emb, done, span_2.sent, span_2.start))

\* Line 207: sentence.embedding of an embedded sentence.
SentenceEmbedding(emb, done, sentence) ==
    [of |-> <<sentence.id>>,
     len |-> IF ~EmbedsTokens(emb) /\ sentence.id \in done
             THEN emb.embedding_length ELSE 0]

\* Lines 199, 206-207 and 218-222: the vectors one chunk contributes.
StepEmbeddings(emb, done, sentence_step, pair_step) ==
    IF emb.type = "TransformerDocumentEmbeddings"
    THEN [k \in 1..Len(sentence_step) |->
             SentenceEmbedding(emb, done, sentence_step[k])]
    ELSE [k \in 1..Len(pair_step) |-> PairEmbedding(emb, done, pair_step[k])]

\* Lines 201 and 211: the number of iterations of the loop over the chunks.
StepCount(emb, sentence_steps, pair_steps) ==
    IF emb.type = "TransformerDocumentEmbeddings" THEN Len(sentence_steps)
    ELSE Min(Len(sentence_steps), Len(pair_steps))

\* Line 237: torch.stack needs at least one vector, all of one length.
CanStack(vectors) ==
    /\ Len(vectors) > 0
    /\ \A i, j \in 1..Len(vectors) : vectors[i].len = vectors[j].len

\* Lines 242-245: the first decoder layer needs rows of its input width.
CanDecode(m, vectors) ==
    \A i \in 1..Len(vectors) :
        vectors[i].len = m.relation_representation_length

\* Row i of the scores is computed from row i of the stacked vectors.
Decode(vectors) == [i \in 1..Len(vectors) |-> vectors[i].of]

\* ------------------------------------------------------------------ state
VARIABLES
    pc,                      \* "new", "ready", "embed", "returned", "raised";
                             \* "call" and "done" for add_entity_markers alone
    embeddings,              \* the embedding provider: type, length, mode
    model,                   \* the RelationExtractor
    origin,                  \* the model as constructed (history)
    restored,                \* the model went through the state dict (history)
    sentences,               \* the batch handed to forward_pass
    return_label_candidates, \* the flag handed to forward_pass
    candidates,              \* the emitted pairs, in order (history)
    labels,
    entity_pairs,
    sentences_to_embed,
    sentences_to_label,
    empty_label_candidates,
    step,                    \* the chunk the embedding loop is at
    detach,
    relation_embeddings,
    embedded,                \* the sentence objects embedded so far
    calls,                   \* the calls made on the provider (history)
    mode_at_call,            \* the provider's mode when forward_pass began
    scores,                  \* sentence_relation_scores
    marker_call,             \* the arguments of add_entity_markers
    marker_result

vars == <<pc, embeddings, model, origin, restored, sentences,
          return_label_candidates, candidates, labels, entity_pairs,
          sentences_to_embed, sentences_to_label, empty_label_candidates,
          step, detach, relation_embeddings, embedded, calls, mode_at_call,
          scores, marker_call, marker_result>>

passVars == <<candidates, labels, entity_pairs, sentences_to_embed,
              sentences_to_label, empty_label_candidates, step, detach,
              relation_embeddings, embedded, calls, mode_at_call, scores>>

\* Lines 187-194, from the lists forward_pass has built.
sentence_embed_steps == SentenceEmbedSteps(sentences_to_embed, sentences)
entity_pairs_steps ==
    EntityPairsSteps(sentences_to_embed, entity_pairs, sentences)

NoScores == [absent |-> TRUE, rows |-> <<>>]
NoModel == [constructed |-> FALSE]
NoCall == [tokens |-> <<>>, span_1 |-> Span(0, 0), span_2 |-> Span(0, 0)]
NoResult == [ok |-> FALSE, tokens |-> <<>>, spans |-> <<>>]

\* ----------------------------------------------------------------- inputs
Word(i) == IF i % 2 = 1 THEN "A" ELSE "B"
TypeAt(i) == IF i % 2 = 1 THEN "PER" ELSE "ORG"

SpanLabel(span, value) == [span |-> span, value |-> value]
RelationLabel(head, tail, value) ==
    [head |-> head, tail |-> tail, value |-> value]

Sentence(tokens, span_labels, relation_labels) ==
    [tokens |-> tokens,
     labels |-> [t \in {"ner", "relation"} |->
                    IF t = "ner" THEN span_labels ELSE relation_labels]]

\* A sentence of k + 1 tokens whose first k tokens are entities, no relation.
PlainSentence(k) ==
    Sentence([i \in 1..(k + 1) |-> Word(i)],
             [i \in 1..k |-> SpanLabel(Span(i, i), TypeAt(i))],
             <<>>)

PlainSentences == {PlainSentence(k) : k \in 0..MaxSpans}

\* Sentences of two tokens: any annotations of any of its spans, several
\* annotations of one span included, and the gold relations below.
DenseSpanLabels == {SpanLabel(sp, t) : sp \in SpansOf(2), t \in Types}

DenseSpanLists ==
    UNION {{q \in [1..n -> DenseSpanLabels] :
               \A i, j \in 1..n : i # j => q[i] # q[j]} : n \in 0..(MaxSpans - 1)}

GoldLists ==
    {<<>>,
     <<RelationLabel(Span(1, 1), Span(2, 2), "R")>>,
     <<RelationLabel(Span(2, 2), Span(1, 1), "S")>>,
     <<RelationLabel(Span(1, 1), Span(2, 2), "R"),
       RelationLabel(Span(1, 1), Span(2, 2), "S")>>}

DenseSentences ==
    {Sentence(<<"A", "B">>, q, g) : q \in DenseSpanLists, g \in GoldLists}

PlainBatches == UNION {[1..n -> PlainSentences] : n \in 1..MaxSentences}
DenseBatches == {<<s>> : s \in DenseSentences}
Batches == PlainBatches \cup DenseBatches

TokenProvider ==
    [type |-> "TokenEmbeddings", embedding_length |-> EmbLen, training |-> TRUE]
DocumentProvider ==
    [type |-> "TransformerDocumentEmbeddings", embedding_length |-> EmbLen,
     training |-> TRUE]
\* A provider of a class the constructor does not name.
PoolProvider ==
    [type |-> "DocumentPoolEmbeddings", embedding_length |-> EmbLen,
     training |-> TRUE]

\* The providers of every class, of every length up to EmbLen.
Providers ==
    {[p EXCEPT !.embedding_length = n] :
        p \in {TokenProvider, DocumentProvider, PoolProvider}, n \in 1..EmbLen}

AllowLists == {NoPairs, PairSet({<<"PER", "ORG">>})}
PoolingOperations == {"first_last", "first"}

\* ------------------------------------------------------------------- Init
InitPass ==
    /\ return_label_candidates = FALSE
    /\ candidates = <<>>
    /\ labels = <<>>
    /\ entity_pairs = <<>>
    /\ sentences_to_embed = <<>>
    /\ sentences_to_label = <<>>
    /\ empty_label_candidates = <<>>
    /\ step = 0
    /\ detach = FALSE
    /\ relation_embeddings = <<>>
    /\ embedded = {}
    /\ calls = <<>>
    /\ mode_at_call = TRUE
    /\ scores = NoScores

InitWith(providers, batches) ==
    /\ pc = "new"
    /\ embeddings \in providers
    /\ sentences \in batches
    /\ model = NoModel
    /\ origin = NoModel
    /\ restored = FALSE
    /\ InitPass
    /\ marker_call = NoCall
    /\ marker_result = NoResult

Init == InitWith({TokenProvider, DocumentProvider}, Batches)

\* ---------------------------------------------------------------- actions
\* RelationExtractor(embeddings, ...), lines 16-75.
Construct(use_entity_markers, use_gold_spans, use_entity_pairs, pooling_operation) ==
    /\ pc = "new"
    /\ model' = RelationExtractorInit(embeddings, {"R", "S"}, "relation",
                                      "ner", use_entity_markers,
                                      use_gold_spans, use_entity_pairs,
                                      pooling_operation)
    /\ origin' = model'
    /\ pc' = "ready"
    /\ UNCHANGED <<embeddings, restored, sentences, return_label_candidates,
                   passVars, marker_call, marker_result>>

\* model.eval(): the mode of a module is the mode of its submodules.
ModelEval ==
    /\ pc = "ready"
    /\ model.training
    /\ model' = [model EXCEPT !.training = FALSE]
    /\ embeddings' = [embeddings EXCEPT !.training = FALSE]
    /\ UNCHANGED <<pc, origin, restored, sentences, return_label_candidates,
                   passVars, marker_call, marker_result>>

\* _init_model_with_state_dict(m._get_state_dict()), lines 258-289.
RoundTrip ==
    /\ pc = "ready"
    /\ ~restored
    /\ model' = InitModelWithStateDict(embeddings, GetStateDict(model))
    /\ restored' = TRUE
    /\ UNCHANGED <<pc, embeddings, origin, sentences, return_label_candidates,
                   passVars, marker_call, marker_result>>

\* forward_pass up to the embedding loop, lines 124-197; the whole call when
\* no candidate is generated (lines 247-256) or the marker rewriting raises.
ForwardBegin(rlc) ==
    /\ pc = "ready"
    /\ return_label_candidates' = rlc
    /\ mode_at_call' = embeddings.training
    /\ LET cands == Candidates(model, sentences, Len(sentences))
       IN  IF MarkersRaise(model, sentences, cands)
           THEN /\ pc' = "raised"
                /\ candidates' = cands
                /\ UNCHANGED <<labels, entity_pairs, sentences_to_embed,
                               sentences_to_label, empty_label_candidates>>
           ELSE /\ candidates' = cands
                /\ labels' = Labels(cands)
                /\ entity_pairs' = EntityPairs(model, sentences, cands)
                /\ sentences_to_embed' =
                       SentencesToEmbed(model, sentences, cands)
                /\ sentences_to_label' = SentencesToLabel(rlc, cands)
                /\ empty_label_candidates' = LabelCandidates(rlc, cands)
                /\ pc' = IF HasCandidates(Labels(cands)) THEN "embed"
                         ELSE "returned"
    /\ step' = 1
    /\ detach' = DetachStart
    /\ relation_embeddings' = <<>>
    /\ scores' = NoScores
    /\ UNCHANGED <<embeddings, model, origin, restored, sentences, embedded,
                   calls, marker_call, marker_result>>

\* A call on the provider: eval(), train() or embed(chunk), with the ids of
\* the sentences handed over and the mode the provider is in during it.
ProviderCall(op, chunk, ids, training) ==
    [op |-> op, chunk |-> chunk, ids |-> ids, training |-> training]

StepIds(sentence_step) == [k \in 1..Len(sentence_step) |-> sentence_step[k].id]

\* Line 203 / 214.
EvalIfDetached(emb, d) == IF d THEN [emb EXCEPT !.training = FALSE] ELSE emb

EvalCalls(d) == IF d THEN <<ProviderCall("eval", 0, <<>>, FALSE)>> ELSE <<>>

\* One iteration of the loop over the chunks, lines 201-208 or 211-224.
EmbedStep ==
    /\ pc = "embed"
    /\ step <= StepCount(embeddings, sentence_embed_steps, entity_pairs_steps)
    /\ LET emb == EvalIfDetached(embeddings, detach)
           sentence_step == sentence_embed_steps[step]
           pair_step == IF step <= Len(entity_pairs_steps)
                        THEN entity_pairs_steps[step] ELSE <<>>
           done == embedded \cup
                   {sentence_step[k].id : k \in 1..Len(sentence_step)}
       IN  /\ embeddings' = emb
           /\ calls' = calls \o EvalCalls(detach) \o
                       <<ProviderCall("embed", step, StepIds(sentence_step),
                                      emb.training)>>
           /\ embedded' = done
           /\ relation_embeddings' = relation_embeddings \o
                  StepEmbeddings(emb, done, sentence_step, pair_step)
    /\ detach' = TRUE
    /\ step' = step + 1
    /\ UNCHANGED <<pc, model, origin, restored, sentences,
                   return_label_candidates, candidates, labels, entity_pairs,
                   sentences_to_embed, sentences_to_label,
                   empty_label_candidates, mode_at_call, scores, marker_call,
                   marker_result>>

\* Lines 226-256: the provider is put back to training mode, the vectors are
\* stacked and decoded, and the call returns (or torch raises).
ForwardEnd ==
    /\ pc = "embed"
    /\ step > StepCount(embeddings, sentence_embed_steps, entity_pairs_steps)
    /\ embeddings' = IF model.training
                     THEN [embeddings EXCEPT !.training = TRUE]
                     ELSE embeddings
    /\ calls' = IF model.training
                THEN Append(calls, ProviderCall("train", 0, <<>>, TRUE))
                ELSE calls
    /\ IF CanStack(relation_embeddings) /\ CanDecode(model, relation_embeddings)
       THEN /\ scores' = [absent |-> FALSE, rows |-> Decode(relation_embeddings)]
            /\ pc' = "returned"
       ELSE /\ scores' = scores
            /\ pc' = "raised"
    /\ UNCHANGED <<model, origin, restored, sentences, return_label_candidates,
                   candidates, labels, entity_pairs, sentences_to_embed,
                   sentences_to_label, empty_label_candidates, step, detach,
                   relation_embeddings, embedded, mode_at_call, marker_call,
                   marker_result>>

Constructs ==
    \E mk \in BOOLEAN, gold \in BOOLEAN, allow \in AllowLists,
       pool \in PoolingOperations : Construct(mk, gold, allow, pool)

ForwardBegins == \E rlc \in BOOLEAN : ForwardBegin(rlc)

Next ==
    \/ Constructs
    \/ ModelEval
    \/ ForwardBegins
    \/ EmbedStep
    \/ ForwardEnd

Spec == Init /\ [][Next]_vars

\* ------------------------------------------------ construction on its own
InitConstruct == InitWith(Providers, PlainBatches)

NextConstruct == Constructs

SpecConstruct == InitConstruct /\ [][NextConstruct]_vars

\* ------------------------------------- forward_pass after a save and restore
InitRoundTrip == InitWith({TokenProvider, DocumentProvider}, Batches)

NextRoundTrip ==
    \/ Constructs
    \/ RoundTrip
    \/ ForwardBegins
    \/ EmbedStep
    \/ ForwardEnd

SpecRoundTrip == InitRoundTrip /\ [][NextRoundTrip]_vars

\* ------------------------------------------- add_entity_markers on its own
MarkerCalls ==
    UNION {{[tokens |-> t, span_1 |-> s1, span_2 |-> s2] :
               t \in [1..n -> Words], s1 \in SpansOf(n), s2 \in SpansOf(n)} :
           n \in 1..MaxTokens}

InitMarkers ==
    /\ pc = "call"
    /\ marker_call \in MarkerCalls
    /\ marker_result = NoResult
    /\ embeddings = TokenProvider
    /\ sentences = <<>>
    /\ model = NoModel
    /\ origin = NoModel
    /\ restored = FALSE
    /\ InitPass

\* One call of add_entity_markers, lines 77-117.
AddEntityMarkers ==
    /\ pc = "call"
    /\ marker_result' = add_entity_markers(marker_call.tokens,
                                           marker_call.span_1,
                                           marker_call.span_2)
    /\ pc' = "done"
    /\ UNCHANGED <<embeddings, model, origin, restored, sentences,
                   return_label_candidates, passVars, marker_call>>

NextMarkers == AddEntityMarkers

SpecMarkers == InitMarkers /\ [][NextMarkers]_vars

\* ------------------------------------------------------------- properties
\* forward_pass was called and has gone through candidate generation.
Generated == pc \in {"embed", "returned", "raised"}
\* forward_pass was called and has ended.
Ended == pc \in {"returned", "raised"}
\* The loop over the chunks has ended.
LoopEnded == Ended /\ Len(candidates) > 0

CeilDiv(a, b) == (a + b - 1) \div b

EmbedCalls == SelectSeq(calls, LAMBDA c : c.op = "embed")

RECURSIVE Concat(_, _)
\* The concatenation of the first n sequences of seqs.
Concat(seqs, n) == IF n = 0 THEN <<>> ELSE Concat(seqs, n - 1) \o seqs[n]

\* The first token of a span of a sentence object.
FirstToken(id, span) == [sent |-> id, tok |-> span.start]

\* Row i of a tensor is computed from candidate i: from the first tokens of
\* its two spans, or from the sentence rewritten for it.
RowOfCandidate(row, i) ==
    LET c == candidates[i]
    IN  IF embeddings.type = "TransformerDocumentEmbeddings"
        THEN model.use_entity_markers /\ row = <<ExpandedId(i)>>
        ELSE IF model.use_entity_markers
        THEN /\ Len(row) = 2
             /\ row[1].sent = ExpandedId(i)
             /\ row[2].sent = ExpandedId(i)
        ELSE row = <<FirstToken(SentenceId(c.sent), c.span_1),
                     FirstToken(SentenceId(c.sent), c.span_2)>>

\* Entry i of the label candidates and of the sentences to label is
\* candidate i.
EntryOfCandidate(i) ==
    LET c == candidates[i]
    IN  /\ sentences_to_label[i] = SentenceId(c.sent)
        /\ empty_label_candidates[i].head = SpanRef(SentenceId(c.sent), c.span_1)
        /\ empty_label_candidates[i].tail = SpanRef(SentenceId(c.sent), c.span_2)

\* C1: a forward_pass call that generates at least one candidate and returns
\* has a scores tensor with len(labels) rows, row i built from the pair
\* labelled labels[i]; with return_label_candidates the two extra lists have
\* len(labels) entries and entry i is that pair.
C1_ScoresAligned ==
    (pc = "returned" /\ Len(labels) > 0) =>
        /\ ~scores.absent
        /\ Len(scores.rows) = Len(labels)
        /\ \A i \in 1..Len(scores.rows) :
               i <= Len(candidates) => RowOfCandidate(scores.rows[i], i)
        /\ return_label_candidates =>
               /\ Len(sentences_to_label) = Len(labels)
               /\ Len(empty_label_candidates) = Len(labels)
               /\ \A i \in 1..Len(labels) : EntryOfCandidate(i)

\* The gold relation annotations of candidate c's sentence that have the
\* PositionKey of c's pair.
GoldOf(c) ==
    LET rels == get_labels(sentences[c.sent], model.label_type)
    IN  {k \in 1..Len(rels) :
            create_position_string(rels[k].head, rels[k].tail) =
            create_position_string(c.span_1, c.span_2)}

GoldValues(c) ==
    {get_labels(sentences[c.sent], model.label_type)[k].value : k \in GoldOf(c)}

\* C2: labels[i] is the value of a gold relation annotation with the
\* PositionKey of candidate i's pair when the sentence has one, and 'O'
\* otherwise; in gold-only mode every emitted candidate has a gold relation.
C2_GoldLabels ==
    Generated =>
        /\ Len(labels) = Len(candidates)
        /\ \A i \in 1..Len(candidates) :
               LET c == candidates[i]
               IN  /\ GoldOf(c) # {} =>
                          \E v \in GoldValues(c) : labels[i] = <<v>>
                   /\ GoldOf(c) = {} =>
                          labels[i] = <<"O">> /\ ~model.use_gold_spans

\* A candidate that took the value of its gold relation has been emitted in
\* gold-only mode.
C2_Witness ==
    /\ Generated
    /\ model.use_gold_spans
    /\ \E i \in 1..Len(candidates) :
           GoldOf(candidates[i]) # {} /\ labels[i] = <<"S">>

\* C3: every relation representation vector forward_pass builds with a
\* token-level or whole-document transformer provider has the length of the
\* decoder's input width.
C3_VectorWidth ==
    embeddings.type \in {"TokenEmbeddings", "TransformerDocumentEmbeddings"} =>
        \A i \in 1..Len(relation_embeddings) :
            relation_embeddings[i].len = model.relation_representation_length

\* The ids of the sentences handed to the provider, call after call.
EmbeddedIds ==
    Concat([k \in 1..Len(EmbedCalls) |-> EmbedCalls[k].ids], Len(EmbedCalls))

\* C4 as claimed: P candidates of N sentences are embedded in ceil(P / 4N)
\* chunks of at most 4N candidates each.
C4_ChunksByCandidates ==
    LoopEnded =>
        /\ Len(EmbedCalls) = CeilDiv(Len(labels), 4 * Len(sentences))
        /\ \A k \in 1..Len(EmbedCalls) :
               Len(entity_pairs_steps[k]) <= 4 * Len(sentences)

\* C4 as amended: the embeddable sentences (one per candidate with entity
\* markers, the N input sentences without) are handed to the provider in
\* ceil(E / 4N) consecutive chunks of 4N, the last one possibly shorter, and
\* the vectors come out in the order of the candidates (token-level
\* provider) or of the embeddable sentences (whole-document provider).
C4_ChunksBySentences ==
    LoopEnded =>
        LET E == Len(sentences_to_embed)
            M == 4 * Len(sentences)
            K == Len(EmbedCalls)
        IN  /\ E = IF model.use_entity_markers THEN Len(labels)
                   ELSE Len(sentences)
            /\ K = CeilDiv(E, M)
            /\ ~model.use_entity_markers => K = 1
            /\ \A k \in 1..K :
                   /\ EmbedCalls[k].chunk = k
                   /\ Len(EmbedCalls[k].ids) <= M
                   /\ k < K => Len(EmbedCalls[k].ids) = M
            /\ EmbeddedIds = [i \in 1..E |-> sentences_to_embed[i].id]
            /\ IF embeddings.type = "TransformerDocumentEmbeddings"
               THEN relation_embeddings =
                        [i \in 1..E |->
                            [of |-> <<sentences_to_embed[i].id>>,
                             len |-> embeddings.embedding_length]]
               ELSE /\ Len(relation_embeddings) = Len(labels)
                    /\ \A i \in 1..Len(labels) :
                           relation_embeddings[i].of =
                               <<FirstToken(entity_pairs[i][1].sent,
                                            entity_pairs[i][1]),
                                 FirstToken(entity_pairs[i][2].sent,
                                            entity_pairs[i][2])>>

\* Six rewritten sentences of one input sentence were embedded in two chunks.
C4_Witness ==
    /\ LoopEnded
    /\ model.use_entity_markers
    /\ Len(sentences) = 1
    /\ Len(labels) = 6
    /\ Len(EmbedCalls) = 2

\* The candidates of sentence si.
CandidatesOfSentence(si) ==
    {i \in 1..Len(candidates) : candidates[i].sent = si}

SpanLabelsOf(si) == get_labels(sentences[si], model.span_label_type)

\* The ordered pairs of span annotations of sentence si on different spans.
DistinctSpanPairs(si) ==
    LET S == SpanLabelsOf(si)
    IN  {p \in (1..Len(S)) \X (1..Len(S)) : S[p[1]].span # S[p[2]].span}

Unfiltered == model.use_entity_pairs.none /\ ~model.use_gold_spans

\* C5 as claimed: without allow-list and gold-only mode a sentence with the
\* span annotations S has len(S) x (len(S) - 1) candidates.
C5_FullCrossProduct ==
    (Generated /\ Unfiltered) =>
        \A si \in 1..Len(sentences) :
            Cardinality(CandidatesOfSentence(si)) =
                Len(SpanLabelsOf(si)) * (Len(SpanLabelsOf(si)) - 1)

\* C5 as amended: there is exactly one candidate for every ordered pair of
\* span annotations on different spans, which makes len(S) x (len(S) - 1)
\* candidates when no two annotations of S are on the same span.
C5_DistinctSpanPairs ==
    (Generated /\ Unfiltered) =>
        \A si \in 1..Len(sentences) :
            LET S == SpanLabelsOf(si)
            IN  /\ \A p \in DistinctSpanPairs(si) :
                       Cardinality({i \in CandidatesOfSentence(si) :
                                       /\ candidates[i].a = p[1]
                                       /\ candidates[i].b = p[2]}) = 1
                /\ Cardinality(CandidatesOfSentence(si)) =
                       Cardinality(DistinctSpanPairs(si))
                /\ (\A a, b \in 1..Len(S) : a # b => S[a].span # S[b].span) =>
                       Cardinality(CandidatesOfSentence(si)) =
                           Len(S) * (Len(S) - 1)

\* The second of two sentences has three annotated spans and six candidates.
C5_Witness ==
    /\ Generated
    /\ Unfiltered
    /\ Len(sentences) = 2
    /\ Len(SpanLabelsOf(2)) = 3
    /\ Cardinality(CandidatesOfSentence(2)) = 6

\* C6: a call that generates no candidate returns with absent scores and
\* empty lists, without a call on the provider or a change of its mode.
C6_EmptyBatch ==
    (Ended /\ Len(candidates) = 0) =>
        /\ pc = "returned"
        /\ scores.absent
        /\ labels = <<>>
        /\ sentences_to_label = <<>>
        /\ empty_label_candidates = <<>>
        /\ relation_embeddings = <<>>
        /\ calls = <<>>
        /\ embeddings.training = mode_at_call

\* Two sentences without a pair of spans went through a predicting call.
C6_Witness ==
    /\ pc = "returned"
    /\ Len(candidates) = 0
    /\ Len(sentences) = 2
    /\ return_label_candidates
    /\ scores.absent

\* The two spans do not overlap.
Apart(span_1, span_2) == span_1.end < span_2.start \/ span_2.end < span_1.start

\* The number of marker tokens in front of token i of the original sentence.
MarkersBefore(i, span_1, span_2) ==
    (IF span_1.start <= i THEN 1 ELSE 0) + (IF span_1.end < i THEN 1 ELSE 0) +
    (IF span_2.start <= i THEN 1 ELSE 0) + (IF span_2.end < i THEN 1 ELSE 0)

\* The place of token i of the original sentence in the rewritten sentence.
PlaceOf(i, span_1, span_2) == i + MarkersBefore(i, span_1, span_2)

\* C7: for two non-overlapping spans the rewritten sentence is the original
\* tokens in order, '<e1>' right before and '</e1>' right after span_1,
\* '<e2>' and '</e2>' likewise around span_2; the returned spans are the
\* tokens '<e1>' and '<e2>', in this order when span_1 comes first in the
\* sentence and swapped when span_2 comes first.
C7_MarkersAroundSpans ==
    (pc = "done" /\ Apart(marker_call.span_1, marker_call.span_2)) =>
        LET t == marker_call.tokens
            s1 == marker_call.span_1
            s2 == marker_call.span_2
            out == marker_result.tokens
            e1 == PlaceOf(s1.start, s1, s2) - 1
            e2 == PlaceOf(s2.start, s1, s2) - 1
        IN  /\ marker_result.ok
            /\ Len(out) = Len(t) + 4
            /\ \A i \in 1..Len(t) : out[PlaceOf(i, s1, s2)] = t[i]
            /\ out[e1] = "<e1>"
            /\ out[PlaceOf(s1.end, s1, s2) + 1] = "</e1>"
            /\ out[e2] = "<e2>"
            /\ out[PlaceOf(s2.end, s1, s2) + 1] = "</e2>"
            /\ marker_result.spans =
                   IF s1.start < s2.start
                   THEN <<Span(e1, e1), Span(e2, e2)>>
                   ELSE <<Span(e2, e2), Span(e1, e1)>>

\* A sentence was rewritten whose span_2, of two tokens, precedes span_1.
C7_Witness ==
    /\ pc = "done"
    /\ marker_result.ok
    /\ Apart(marker_call.span_1, marker_call.span_2)
    /\ marker_call.span_2.end < marker_call.span_1.start
    /\ marker_call.span_2.end > marker_call.span_2.start
    /\ marker_result.spans[1] = Span(1, 1)

RecognisedTypes == {"TokenEmbeddings", "TransformerDocumentEmbeddings"}

\* C8 as claimed: no model is constructed with an embedding object of an
\* unrecognised type.
C8_UnknownTypeRejected ==
    pc = "ready" => embeddings.type \in RecognisedTypes

\* C8 as amended: the construction with an embedding object of an
\* unrecognised type succeeds and sizes the decoder as for a token-level
\* provider: 2 x embedding_length, doubled for 'first_last'.
C8_UnknownTypeSizedAsTokens ==
    (pc = "ready" /\ embeddings.type \notin RecognisedTypes) =>
        model.relation_representation_length =
            IF model.pooling_operation = "first_last"
            THEN 4 * embeddings.embedding_length
            ELSE 2 * embeddings.embedding_length

\* A model was constructed on a DocumentPoolEmbeddings object.
C8_Witness ==
    /\ pc = "ready"
    /\ embeddings.type = "DocumentPoolEmbeddings"
    /\ model.pooling_operation = "first"
    /\ model.relation_representation_length = 2 * embeddings.embedding_length

\* C9: the chunks are embedded in list order; the first embed call is not
\* preceded by a switch to eval mode and is made in the mode the provider
\* had; every later embed call directly follows a switch to eval mode; and a
\* call that returns in a model in training mode leaves the provider in
\* training mode.
C9_EvalAfterFirstChunk ==
    /\ \A k \in 1..Len(EmbedCalls) : EmbedCalls[k].chunk = k
    /\ Len(calls) > 0 =>
           /\ calls[1].op = "embed"
           /\ calls[1].training = mode_at_call
    /\ \A p \in 2..Len(calls) :
           calls[p].op = "embed" =>
               /\ calls[p - 1].op = "eval"
               /\ ~calls[p].training
    /\ LoopEnded =>
           /\ Len(EmbedCalls) = Len(sentence_embed_steps)
           /\ \A k \in 1..Len(EmbedCalls) :
                  EmbedCalls[k].ids = StepIds(sentence_embed_steps[k])
    /\ (pc = "returned" /\ Len(candidates) > 0 /\ model.training) =>
           embeddings.training

\* A call in a training model embedded two chunks and returned.
C9_Witness ==
    /\ pc = "returned"
    /\ model.training
    /\ Len(EmbedCalls) = 2
    /\ ~EmbedCalls[2].training
    /\ embeddings.training

\* C10: after _init_model_with_state_dict(m._get_state_dict()) the model has
\* the candidate-generation fields of m, and forward_pass emits the
\* candidates and labels m would emit.
C10_RoundTripSameCandidates ==
    (restored /\ Generated) =>
        /\ model.use_entity_pairs = origin.use_entity_pairs
        /\ model.use_entity_markers = origin.use_entity_markers
        /\ model.label_type = origin.label_type
        /\ model.span_label_type = origin.span_label_type
        /\ candidates = Candidates(origin, sentences, Len(sentences))
        /\ labels = Labels(Candidates(origin, sentences, Len(sentences)))
        /\ model.use_gold_spans = origin.use_gold_spans

====
